---- MODULE Spec2Model ----
(***************************************************************************)
(* quayd: a quay.io build webhook is turned into a GitHub commit status    *)
(* and, for a successful build, into two stabilisation tags on the built   *)
(* image.  Model of src/quayd.go.                                          *)
(*                                                                         *)
(* Strings the code takes apart or puts together (repository, commit,      *)
(* registry tag, image id, response body) are sequences of one-character   *)
(* strings; strings the code only passes on or uses as a map key (state,   *)
(* url, description, context) are TLA+ strings.                            *)
(*                                                                         *)
(* An error value is a record [kind, msg]: kind "nil" is Go's nil error,   *)
(* kind "error" a non-nil error whose text is the concatenation of msg,    *)
(* and kind "panic" a run-time panic that unwinds the calling function.    *)
(***************************************************************************)
EXTENDS Naturals, Sequences, FiniteSets

VARIABLES
    q,          \* the Quayd value: its three embedded interface fields
    statuses,   \* DefaultStatusesRepository.statuses, the fake sink's records
    registry,   \* the registry's tag mapping: <<repo, tag>> -> image id
    puts,       \* the registry's applied tag writes, each with the mapping before and after
    pc,         \* position of the operation in progress
    op,         \* the operation in progress or last finished, with its arguments
    log,        \* the calls made on the three capabilities by that operation
    result,     \* what that operation returned
    quayds,     \* further Quayd values of the process, by name
    creating    \* Create calls running concurrently on the fake sink, by goroutine

vars == <<q, statuses, registry, puts, pc, op, log, result, quayds, creating>>

----------------------------------------------------------------------------
(* Bounds *)

\* longest fake-sink record list explored
MaxStatuses == 2
\* longest repository string given to the network-backed sink
MaxRepoLen == 5
\* most applied registry writes explored
MaxPuts == 3

----------------------------------------------------------------------------
(* Values *)

Nil == "nil"

NilErr == [kind |-> "nil", msg |-> <<>>]

Err(parts) == [kind |-> "error", msg |-> parts]

Panic(parts) == [kind |-> "panic", msg |-> parts]

IsNil(e) == e.kind = "nil"

IsErr(e) == e.kind = "error"

IsPanic(e) == e.kind = "panic"

\* Context, src/quayd.go:16
Context == "Docker Image"

\* the three package-level fakes, src/quayd.go:19-25
DefaultStatusesRepository == "DefaultStatusesRepository"

DefaultTagger == "DefaultTagger"

DefaultTagResolver == "DefaultTagResolver"

\* the Statuses table, src/quayd.go:30-34
Statuses ==
    [s \in {"pending", "success", "failure"} |->
        CASE s = "pending" -> "The Docker image is building"
          [] s = "success" -> "The Docker image was built"
          [] s = "failure" -> "The Docker image failed to build"]

\* Statuses[state]: a Go map read yields the zero value "" for a missing key
StatusesLookup(state) ==
    IF state \in DOMAIN Statuses THEN Statuses[state] ELSE ""

----------------------------------------------------------------------------
(* strings.Split(s, "/") *)

SlashAt(s) == {i \in 1..Len(s) : s[i] = "/"}

FirstSlash(s) == CHOOSE i \in SlashAt(s) : \A j \in SlashAt(s) : i <= j

RECURSIVE Split(_)
Split(s) ==
    IF SlashAt(s) = {}
    THEN <<s>>
    ELSE <<SubSeq(s, 1, FirstSlash(s) - 1)>>
             \o Split(SubSeq(s, FirstSlash(s) + 1, Len(s)))

----------------------------------------------------------------------------
(* Inputs *)

RepoChars == {"o", "/"}

RECURSIVE StringsUpTo(_, _)
StringsUpTo(chars, n) ==
    IF n = 0
    THEN {<<>>}
    ELSE LET shorter == StringsUpTo(chars, n - 1)
         IN  shorter \cup {Append(s, c) : s \in shorter, c \in chars}

\* repository strings given to the network-backed sink
SinkRepos == StringsUpTo(RepoChars, MaxRepoLen)

\* repository strings of webhook events
Repos == {<<"o", "/", "n">>, <<"o", "n">>}

Commits == {<<"c">>}

URLs == {"u"}

\* the state in the webhook path; "foo" is the unrecognised one of
\* TestWebhook_InvalidStatus
States == {"pending", "success", "failure", "foo"}

Tags == {<<"t">>}

ImageIDs == {<<"1">>, <<"2">>}

\* what a configured StatusesRepository may do on Create
SinkRets == {NilErr, Err(<<"sink">>), Panic(<<"sink">>)}

\* what a configured TagResolver may do on Resolve
ResolveOuts ==
    {[id |-> i, ret |-> NilErr] : i \in ImageIDs}
        \cup {[id |-> <<>>, ret |-> Err(<<"resolve">>)],
              [id |-> <<"1">>, ret |-> Err(<<"resolve">>)],
              [id |-> <<>>, ret |-> Panic(<<"resolve">>)]}

\* what a configured Tagger may do on Tag
TagRets == {NilErr, Err(<<"tag">>), Panic(<<"tag">>)}

----------------------------------------------------------------------------
(* Commit status sinks *)

\* the fake's Create keeping one record of equal statuses
FakeCreateDedup(list, status) ==
    [statuses |-> IF \E i \in 1..Len(list) : list[i] = status
                  THEN list
                  ELSE Append(list, status),
     remote |-> <<>>, ret |-> NilErr]

\* the fake's Create keeping only the status passed
FakeCreateReplace(list, status) ==
    [statuses |-> <<status>>, remote |-> <<>>, ret |-> NilErr]

\* the fake: statusesRepository.Create
FakeCreate(list, status) ==
    [statuses |-> Append(list, status), remote |-> <<>>, ret |-> NilErr]

\* what RepositoriesService.CreateStatus may return as its error
ApiErrs == {NilErr, Err(<<"github">>)}

\* GitHubStatusesRepository.Create: c := strings.Split(status.Repo, "/"), then
\* CreateStatus(c[0], c[1], status.Ref, st); c[1] of a one-element slice panics
GitHubCreate(list, status, apiErr) ==
    LET st == [state |-> status.State, target_url |-> status.TargetURL,
               context |-> status.Context, description |-> status.Description]
        c == Split(status.Repo)
    IN  IF Len(c) < 2
        THEN [statuses |-> list, remote |-> <<>>,
              ret |-> Panic(<<"index out of range">>)]
        ELSE [statuses |-> list,
              remote |-> <<[owner |-> c[1], repo |-> c[2],
                            ref |-> status.Ref, status |-> st]>>,
              ret |-> apiErr]

\* StatusesRepository.Create on whichever implementation the field holds
Create(impl, list, status, env) ==
    CASE impl = DefaultStatusesRepository -> FakeCreate(list, status)
      [] impl = "github" -> GitHubCreate(list, status, env)
      [] OTHER -> [statuses |-> list, remote |-> <<>>, ret |-> env]

CreateEnvs(impl) ==
    CASE impl = DefaultStatusesRepository -> {NilErr}
      [] impl = "github" -> ApiErrs
      [] OTHER -> SinkRets

----------------------------------------------------------------------------
(* HTTP *)

NilResp == [nil |-> TRUE]

Resp(code, status, body) ==
    [nil |-> FALSE, StatusCode |-> code, Status |-> status, Body |-> body]

\* net/url ishex: 0-9, a-f and A-F
HexDigits == {"0", "1", "2", "3", "4", "5", "6", "7", "8", "9",
              "a", "b", "c", "d", "e", "f", "A", "B", "C", "D", "E", "F"}

\* printable ASCII, from the space (32) to the tilde (126); the grave accent
\* (96), which a string here cannot hold, is written as its code point
Ascii ==
    <<" ", "!", "\"", "#", "$", "%", "&", "'", "(", ")", "*", "+", ",",
      "-", ".", "/", "0", "1", "2", "3", "4", "5", "6", "7", "8", "9",
      ":", ";", "<", "=", ">", "?", "@", "A", "B", "C", "D", "E", "F",
      "G", "H", "I", "J", "K", "L", "M", "N", "O", "P", "Q", "R", "S",
      "T", "U", "V", "W", "X", "Y", "Z", "[", "\\", "]", "^", "_", "\\u0060",
      "a", "b", "c", "d", "e", "f", "g", "h", "i", "j", "k", "l", "m",
      "n", "o", "p", "q", "r", "s", "t", "u", "v", "w", "x", "y", "z",
      "{", "|", "}", "~">>

LowerHex == <<"0", "1", "2", "3", "4", "5", "6", "7", "8", "9",
              "a", "b", "c", "d", "e", "f">>

\* the character of a code point below 65536, as one string: the character
\* itself where it is printable ASCII or one of \t \n \f \r, else the code
\* point written \uxxxx
Rune(code) ==
    CASE code \in 32..126 -> Ascii[code - 31]
      [] code = 9 -> "\t"
      [] code = 10 -> "\n"
      [] code = 12 -> "\f"
      [] code = 13 -> "\r"
      [] OTHER -> "\\u" \o LowerHex[(code \div 4096) + 1]
                        \o LowerHex[((code \div 256) % 16) + 1]
                        \o LowerHex[((code \div 16) % 16) + 1]
                        \o LowerHex[(code % 16) + 1]

\* the bytes below 0x20, which encoding/json rejects raw in a string literal
JSONControlChars == {Rune(code) : code \in 0..31}

\* net/url stringContainsCTLByte: a byte below 0x20, or 0x7f
ControlChars == JSONControlChars \cup {Rune(127)}

\* net/url unescape of a path or a fragment: a '%' that does not start a
\* two-digit hex escape is an error
URLEscapeOK(s) ==
    \A i \in 1..Len(s) :
        s[i] = "%" =>
            /\ i + 2 <= Len(s)
            /\ s[i + 1] \in HexDigits
            /\ s[i + 2] \in HexDigits

\* strings.Cut(s, sep)
Cut(s, sep) ==
    LET at == {i \in 1..Len(s) : s[i] = sep}
    IN  IF at = {}
        THEN [before |-> s, after |-> <<>>, found |-> FALSE]
        ELSE LET i == CHOOSE x \in at : \A y \in at : x <= y
             IN  [before |-> SubSeq(s, 1, i - 1),
                  after |-> SubSeq(s, i + 1, Len(s)), found |-> TRUE]

\* strings.Split(s, sep) with a separator of one character
RECURSIVE SplitOn(_, _)
SplitOn(s, sep) ==
    IF Cut(s, sep).found
    THEN <<Cut(s, sep).before>> \o SplitOn(Cut(s, sep).after, sep)
    ELSE <<s>>

\* "/v1/repositories/"
RepositoriesPath ==
    <<"/", "v", "1", "/", "r", "e", "p", "o", "s", "i", "t", "o", "r", "i",
      "e", "s", "/">>

\* "/tags/"
TagsPath == <<"/", "t", "a", "g", "s", "/">>

\* what follows "https://quay.io" in the URL both adapters build
URLOf(repo, tag) == RepositoriesPath \o repo \o TagsPath \o tag

\* url.Parse on "https://quay.io" + rest, as http.NewRequest and http.Get call
\* it: the fragment is cut off at the first '#', the query at the first '?';
\* a control character before the fragment is an error, then a bad escape in
\* the path, then one in the fragment; the query is not looked at
ParseURL(rest) ==
    LET f == Cut(rest, "#")
        qy == Cut(f.before, "?")
    IN  IF \E i \in 1..Len(f.before) : f.before[i] \in ControlChars
        THEN [err |-> Err(<<"parse: net/url: invalid control character in URL">>),
              path |-> <<>>, query |-> <<>>]
        ELSE IF ~URLEscapeOK(qy.before) \/ ~URLEscapeOK(f.after)
             THEN [err |-> Err(<<"parse: invalid URL escape">>),
                   path |-> <<>>, query |-> <<>>]
             ELSE [err |-> NilErr, path |-> qy.before, query |-> qy.after]

\* the request URL is one url.Parse accepts
URLParses(repo, tag) == IsNil(ParseURL(URLOf(repo, tag)).err)

----------------------------------------------------------------------------
(* Taggers *)

\* a registry that drops a tag written again with the image it already names
RegistryPutToggle(reg, repo, tag, imageID) ==
    IF <<repo, tag>> \in DOMAIN reg /\ reg[<<repo, tag>>] = imageID
    THEN [k \in DOMAIN reg \ {<<repo, tag>>} |-> reg[k]]
    ELSE [k \in DOMAIN reg \cup {<<repo, tag>>} |->
            IF k = <<repo, tag>> THEN imageID ELSE reg[k]]

\* the registry applies an accepted write: {repository}/{tag} := imageID
RegistryPut(reg, repo, tag, imageID) ==
    [k \in DOMAIN reg \cup {<<repo, tag>>} |->
        IF k = <<repo, tag>> THEN imageID ELSE reg[k]]

\* what http.DefaultClient.Do may give DockerRegistryTagger.Tag: a response, a
\* transport error with no response (the request may or may not have been
\* applied), or a redirect-policy error together with the last response
TagHttp ==
    {[err |-> NilErr, resp |-> Resp(c[1], c[2], <<>>), applied |-> c[1] < 300] :
        c \in {<<200, "200 OK">>, <<299, "299 ">>,
               <<300, "300 Multiple Choices">>, <<404, "404 Not Found">>}}
      \cup {[err |-> Err(<<"dial tcp: connection refused">>), resp |-> NilResp,
             applied |-> a] : a \in BOOLEAN}
      \cup {[err |-> Err(<<"stopped after 10 redirects">>),
             resp |-> Resp(302, "302 Found", <<>>), applied |-> FALSE]}

\* http.NewRequest as DockerRegistryTagger.Tag calls it: the request, or the
\* error of url.Parse
TagRequest(repo, imageID, tag) ==
    LET u == ParseURL(URLOf(repo, tag))
    IN  [err |-> u.err, method |-> "PUT", host |-> "quay.io", repo |-> repo,
         tag |-> tag, path |-> u.path, query |-> u.query,
         body |-> <<"\"">> \o imageID \o <<"\"">>]

\* DockerRegistryTagger.Tag
DockerTag(repo, imageID, tag, http) ==
    LET req == TagRequest(repo, imageID, tag)
    IN  IF ~IsNil(req.err)
        THEN [ret |-> req.err, sent |-> FALSE, req |-> req]
        ELSE IF ~IsNil(http.err) \/ http.resp.StatusCode >= 300
             THEN IF http.resp.nil
                  THEN [ret |-> Panic(<<"nil pointer dereference">>),
                        sent |-> TRUE, req |-> req]
                  ELSE [ret |-> Err(<<"Unsuccessful Request: ",
                                      http.resp.Status>>),
                        sent |-> TRUE, req |-> req]
             ELSE [ret |-> http.err, sent |-> TRUE, req |-> req]

\* Tagger.Tag on whichever implementation the field holds; write is the
\* registry write the call had applied, if any
Tag(impl, repo, imageID, tag, env) ==
    CASE impl = DefaultTagger -> [ret |-> NilErr, write |-> <<>>]
      [] impl = "docker" ->
            LET r == DockerTag(repo, imageID, tag, env)
            IN  [ret |-> r.ret,
                 write |-> IF r.sent /\ env.applied
                           THEN <<r.req>>
                           ELSE <<>>]
      [] OTHER -> [ret |-> env, write |-> <<>>]

TagEnvs(impl) ==
    CASE impl = DefaultTagger -> {NilErr}
      [] impl = "docker" -> TagHttp
      [] OTHER -> TagRets

----------------------------------------------------------------------------
(* Tag resolvers *)

\* encoding/json isSpace
Whitespace == {" ", "\t", "\r", "\n"}

Digits == {"0", "1", "2", "3", "4", "5", "6", "7", "8", "9"}

IsSpace(c) == c \in Whitespace

\* encoding/json's scanner (scanner.go): a scanner is [step, stack, err],
\* step the name of its state function, stack its parseState and err the
\* error it holds; a step function gives the scanner after a character,
\* together with the scan code it returns

\* scanner.reset
ResetScanner == [step |-> "stateBeginValue", stack |-> <<>>, err |-> NilErr]

Scan(s, step, code) ==
    [step |-> step, stack |-> s.stack, code |-> code, err |-> s.err]

\* scanner.error
ScanError(s, c, context) ==
    [step |-> "stateError", stack |-> s.stack, code |-> "scanError",
     err |-> Err(<<"invalid character '", c, "' ", context>>)]

\* encoding/json maxNestingDepth
maxNestingDepth == 10000

\* scanner.pushParseState: the state is pushed, and the scan goes on unless
\* the stack is then deeper than maxNestingDepth
Push(s, c, step, newParseState, code) ==
    IF Len(s.stack) + 1 <= maxNestingDepth
    THEN [step |-> step, stack |-> Append(s.stack, newParseState),
          code |-> code, err |-> s.err]
    ELSE ScanError([s EXCEPT !.stack = Append(s.stack, newParseState)], c,
                   "exceeded max depth")

\* scanner.popParseState
Pop(s, code) ==
    [step |-> IF Len(s.stack) = 1 THEN "stateEndTop" ELSE "stateEndValue",
     stack |-> SubSeq(s.stack, 1, Len(s.stack) - 1), code |-> code,
     err |-> s.err]

\* a character that is not a space is an error, which the scanner holds for
\* its next call (step stateError, err set); this call returns scanEnd
stateEndTop(s, c) ==
    IF IsSpace(c)
    THEN Scan(s, "stateEndTop", "scanEnd")
    ELSE [ScanError(s, c, "after top-level value") EXCEPT !.code = "scanEnd"]

stateEndValue(s, c) ==
    LET n == Len(s.stack)
    IN  IF n = 0 THEN stateEndTop([s EXCEPT !.step = "stateEndTop"], c)
        ELSE IF IsSpace(c) THEN Scan(s, "stateEndValue", "scanSkipSpace")
        ELSE CASE s.stack[n] = "parseObjectKey" ->
                    IF c = ":"
                    THEN [step |-> "stateBeginValue",
                          stack |-> [s.stack EXCEPT ![n] = "parseObjectValue"],
                          code |-> "scanObjectKey", err |-> s.err]
                    ELSE ScanError(s, c, "after object key")
               [] s.stack[n] = "parseObjectValue" ->
                    IF c = ","
                    THEN [step |-> "stateBeginString",
                          stack |-> [s.stack EXCEPT ![n] = "parseObjectKey"],
                          code |-> "scanObjectValue", err |-> s.err]
                    ELSE IF c = "}" THEN Pop(s, "scanEndObject")
                    ELSE ScanError(s, c, "after object key:value pair")
               [] s.stack[n] = "parseArrayValue" ->
                    IF c = "," THEN Scan(s, "stateBeginValue", "scanArrayValue")
                    ELSE IF c = "]" THEN Pop(s, "scanEndArray")
                    ELSE ScanError(s, c, "after array element")

stateBeginValue(s, c) ==
    IF IsSpace(c) THEN Scan(s, s.step, "scanSkipSpace")
    ELSE CASE c = "{" -> Push(s, c, "stateBeginStringOrEmpty", "parseObjectKey",
                               "scanBeginObject")
           [] c = "[" -> Push(s, c, "stateBeginValueOrEmpty", "parseArrayValue",
                               "scanBeginArray")
           [] c = "\"" -> Scan(s, "stateInString", "scanBeginLiteral")
           [] c = "-" -> Scan(s, "stateNeg", "scanBeginLiteral")
           [] c = "0" -> Scan(s, "state0", "scanBeginLiteral")
           [] c = "t" -> Scan(s, "stateT", "scanBeginLiteral")
           [] c = "f" -> Scan(s, "stateF", "scanBeginLiteral")
           [] c = "n" -> Scan(s, "stateN", "scanBeginLiteral")
           [] c \in Digits \ {"0"} -> Scan(s, "state1", "scanBeginLiteral")
           [] OTHER -> ScanError(s, c, "looking for beginning of value")

stateBeginValueOrEmpty(s, c) ==
    IF IsSpace(c) THEN Scan(s, s.step, "scanSkipSpace")
    ELSE IF c = "]" THEN stateEndValue(s, c)
    ELSE stateBeginValue(s, c)

stateBeginString(s, c) ==
    IF IsSpace(c) THEN Scan(s, s.step, "scanSkipSpace")
    ELSE IF c = "\"" THEN Scan(s, "stateInString", "scanBeginLiteral")
    ELSE ScanError(s, c, "looking for beginning of object key string")

stateBeginStringOrEmpty(s, c) ==
    IF IsSpace(c) THEN Scan(s, s.step, "scanSkipSpace")
    ELSE IF c = "}"
         THEN stateEndValue([s EXCEPT !.stack[Len(s.stack)] = "parseObjectValue"], c)
         ELSE stateBeginString(s, c)

stateInString(s, c) ==
    IF c = "\"" THEN Scan(s, "stateEndValue", "scanContinue")
    ELSE IF c = "\\" THEN Scan(s, "stateInStringEsc", "scanContinue")
    ELSE IF c \in JSONControlChars THEN ScanError(s, c, "in string literal")
    ELSE Scan(s, "stateInString", "scanContinue")

stateInStringEsc(s, c) ==
    IF c \in {"b", "f", "n", "r", "t", "\\", "/", "\""}
    THEN Scan(s, "stateInString", "scanContinue")
    ELSE IF c = "u" THEN Scan(s, "stateInStringEscU", "scanContinue")
    ELSE ScanError(s, c, "in string escape code")

\* stateInStringEscU, ...EscU1, ...EscU12, ...EscU123
stateInStringEscU(s, c, next) ==
    IF c \in HexDigits THEN Scan(s, next, "scanContinue")
    ELSE ScanError(s, c, "in \\u hexadecimal character escape")

stateE0(s, c) ==
    IF c \in Digits THEN Scan(s, "stateE0", "scanContinue")
    ELSE stateEndValue(s, c)

stateESign(s, c) ==
    IF c \in Digits THEN Scan(s, "stateE0", "scanContinue")
    ELSE ScanError(s, c, "in exponent of numeric literal")

stateE(s, c) ==
    IF c \in {"+", "-"} THEN Scan(s, "stateESign", "scanContinue")
    ELSE stateESign(s, c)

stateDot0(s, c) ==
    IF c \in Digits THEN Scan(s, "stateDot0", "scanContinue")
    ELSE IF c \in {"e", "E"} THEN Scan(s, "stateE", "scanContinue")
    ELSE stateEndValue(s, c)

stateDot(s, c) ==
    IF c \in Digits THEN Scan(s, "stateDot0", "scanContinue")
    ELSE ScanError(s, c, "after decimal point in numeric literal")

state0(s, c) ==
    IF c = "." THEN Scan(s, "stateDot", "scanContinue")
    ELSE IF c \in {"e", "E"} THEN Scan(s, "stateE", "scanContinue")
    ELSE stateEndValue(s, c)

state1(s, c) ==
    IF c \in Digits THEN Scan(s, "state1", "scanContinue")
    ELSE state0(s, c)

stateNeg(s, c) ==
    IF c = "0" THEN Scan(s, "state0", "scanContinue")
    ELSE IF c \in Digits THEN Scan(s, "state1", "scanContinue")
    ELSE ScanError(s, c, "in numeric literal")

\* stateT..stateTru, stateF..stateFals, stateN..stateNul: the next character
\* of the literal, or an error naming the literal and the character expected
stateLiteral(s, c, expected, next, context) ==
    IF c = expected
    THEN Scan(s, next, "scanContinue")
    ELSE ScanError(s, c, context)

\* scanner.step
Step(s, c) ==
    CASE s.step = "stateBeginValue" -> stateBeginValue(s, c)
      [] s.step = "stateBeginValueOrEmpty" -> stateBeginValueOrEmpty(s, c)
      [] s.step = "stateBeginString" -> stateBeginString(s, c)
      [] s.step = "stateBeginStringOrEmpty" -> stateBeginStringOrEmpty(s, c)
      [] s.step = "stateEndValue" -> stateEndValue(s, c)
      [] s.step = "stateEndTop" -> stateEndTop(s, c)
      [] s.step = "stateInString" -> stateInString(s, c)
      [] s.step = "stateInStringEsc" -> stateInStringEsc(s, c)
      [] s.step = "stateInStringEscU" ->
            stateInStringEscU(s, c, "stateInStringEscU1")
      [] s.step = "stateInStringEscU1" ->
            stateInStringEscU(s, c, "stateInStringEscU12")
      [] s.step = "stateInStringEscU12" ->
            stateInStringEscU(s, c, "stateInStringEscU123")
      [] s.step = "stateInStringEscU123" ->
            stateInStringEscU(s, c, "stateInString")
      [] s.step = "stateNeg" -> stateNeg(s, c)
      [] s.step = "state1" -> state1(s, c)
      [] s.step = "state0" -> state0(s, c)
      [] s.step = "stateDot" -> stateDot(s, c)
      [] s.step = "stateDot0" -> stateDot0(s, c)
      [] s.step = "stateE" -> stateE(s, c)
      [] s.step = "stateESign" -> stateESign(s, c)
      [] s.step = "stateE0" -> stateE0(s, c)
      [] s.step = "stateT" ->
            stateLiteral(s, c, "r", "stateTr", "in literal true (expecting 'r')")
      [] s.step = "stateTr" ->
            stateLiteral(s, c, "u", "stateTru", "in literal true (expecting 'u')")
      [] s.step = "stateTru" ->
            stateLiteral(s, c, "e", "stateEndValue", "in literal true (expecting 'e')")
      [] s.step = "stateF" ->
            stateLiteral(s, c, "a", "stateFa", "in literal false (expecting 'a')")
      [] s.step = "stateFa" ->
            stateLiteral(s, c, "l", "stateFal", "in literal false (expecting 'l')")
      [] s.step = "stateFal" ->
            stateLiteral(s, c, "s", "stateFals", "in literal false (expecting 's')")
      [] s.step = "stateFals" ->
            stateLiteral(s, c, "e", "stateEndValue", "in literal false (expecting 'e')")
      [] s.step = "stateN" ->
            stateLiteral(s, c, "u", "stateNu", "in literal null (expecting 'u')")
      [] s.step = "stateNu" ->
            stateLiteral(s, c, "l", "stateNul", "in literal null (expecting 'l')")
      [] s.step = "stateNul" ->
            stateLiteral(s, c, "l", "stateEndValue", "in literal null (expecting 'l')")
      [] OTHER -> Scan(s, "stateError", "scanError")

\* Decoder.readValue on a body read to its end: the length of the first JSON
\* value, leading space included, or the error.  At the end of the body the
\* scanner is given a space: a value it then ends is complete, anything else
\* is io.ErrUnexpectedEOF, or io.EOF when the body held nothing but space
RECURSIVE readValue(_, _, _)
readValue(s, body, i) ==
    IF i > Len(body)
    THEN IF Step(s, " ").code = "scanEnd"
         THEN [n |-> Len(body), err |-> NilErr]
         ELSE IF \E j \in 1..Len(body) : ~IsSpace(body[j])
              THEN [n |-> 0, err |-> Err(<<"unexpected EOF">>)]
              ELSE [n |-> 0, err |-> Err(<<"EOF">>)]
    ELSE LET r == Step(s, body[i])
             next == [step |-> r.step, stack |-> r.stack, err |-> r.err]
         IN  CASE r.code = "scanEnd" -> [n |-> i - 1, err |-> NilErr]
               [] r.code = "scanError" -> [n |-> 0, err |-> r.err]
               [] r.code \in {"scanEndObject", "scanEndArray"}
                    /\ Step(next, " ").code = "scanEnd" ->
                        [n |-> i, err |-> NilErr]
               [] OTHER -> readValue(next, body, i + 1)

HexValue(c) ==
    CASE c \in Digits -> CHOOSE v \in 0..9 : <<"0", "1", "2", "3", "4", "5",
                                               "6", "7", "8", "9">>[v + 1] = c
      [] c \in {"a", "A"} -> 10
      [] c \in {"b", "B"} -> 11
      [] c \in {"c", "C"} -> 12
      [] c \in {"d", "D"} -> 13
      [] c \in {"e", "E"} -> 14
      [] c \in {"f", "F"} -> 15

\* getu4: the code unit of \uXXXX at the head of s, or -1 written as 65536
NoRune == 65536

getu4(s) ==
    IF Len(s) < 6 \/ s[1] # "\\" \/ s[2] # "u"
          \/ \E k \in 3..6 : s[k] \notin HexDigits
    THEN NoRune
    ELSE ((HexValue(s[3]) * 16 + HexValue(s[4])) * 16 + HexValue(s[5])) * 16
            + HexValue(s[6])

\* unicode.ReplacementChar
ReplacementChar == 65533

\* unquoteBytes on a string literal the scanner accepted: i is the position
\* in s, the closing quote being the last character.  A \u escape that is a
\* surrogate takes the next \u escape with it when the two form a pair, the
\* pair being written as the two code units side by side, and is the
\* replacement character otherwise
RECURSIVE unquoteBytes(_, _)
unquoteBytes(s, i) ==
    IF i >= Len(s) THEN <<>>
    ELSE IF s[i] # "\\" THEN <<s[i]>> \o unquoteBytes(s, i + 1)
    ELSE CASE s[i + 1] \in {"\"", "\\", "/"} ->
                <<s[i + 1]>> \o unquoteBytes(s, i + 2)
           [] s[i + 1] = "b" -> <<Rune(8)>> \o unquoteBytes(s, i + 2)
           [] s[i + 1] = "f" -> <<"\f">> \o unquoteBytes(s, i + 2)
           [] s[i + 1] = "n" -> <<"\n">> \o unquoteBytes(s, i + 2)
           [] s[i + 1] = "r" -> <<"\r">> \o unquoteBytes(s, i + 2)
           [] s[i + 1] = "t" -> <<"\t">> \o unquoteBytes(s, i + 2)
           [] s[i + 1] = "u" ->
                LET rr == getu4(SubSeq(s, i, Len(s)))
                    rr1 == getu4(SubSeq(s, i + 6, Len(s)))
                IN  IF rr \in 55296..57343
                    THEN IF rr \in 55296..56319 /\ rr1 \in 56320..57343
                         THEN <<Rune(rr) \o Rune(rr1)>>
                                  \o unquoteBytes(s, i + 12)
                         ELSE <<Rune(ReplacementChar)>>
                                  \o unquoteBytes(s, i + 6)
                    ELSE <<Rune(rr)>> \o unquoteBytes(s, i + 6)

RECURSIVE SkipSpace(_)
SkipSpace(b) ==
    IF b # <<>> /\ b[1] \in Whitespace THEN SkipSpace(Tail(b)) ELSE b

\* json.NewDecoder(body).Decode(&imageID) with imageID a string holding "":
\* the first JSON value of the body is read, what follows it is left unread; a
\* string is unquoted and stored, null leaves imageID as it is, any other
\* value is an UnmarshalTypeError
DecodeString(body) ==
    LET read == readValue(ResetScanner, body, 1)
        item == SkipSpace(SubSeq(body, 1, read.n))
        mismatch(value) ==
            [id |-> <<>>,
             ret |-> Err(<<"json: cannot unmarshal ", value,
                           " into Go value of type string">>)]
    IN  IF ~IsNil(read.err) THEN [id |-> <<>>, ret |-> read.err]
        ELSE CASE item[1] = "\"" -> [id |-> unquoteBytes(item, 2), ret |-> NilErr]
               [] item[1] = "n" -> [id |-> <<>>, ret |-> NilErr]
               [] item[1] \in {"t", "f"} -> mismatch("bool")
               [] item[1] = "{" -> mismatch("object")
               [] item[1] = "[" -> mismatch("array")
               [] OTHER -> mismatch("number")

\* response bodies the registry may send
Bodies ==
    {<<"\"", "1", "\"">>, <<"\"", "\"">>, <<" ", "\"", "2", "\"">>, <<>>,
     <<"n", "u", "l", "l">>, <<"7">>, <<"\"", "1">>, <<"x">>, <<"{", "}">>,
     <<"\t", "\"", "2", "\"">>, <<"\r", "\n", "\"", "2", "\"">>,
     <<"\"", "a", "\\", "\"", "b", "\"">>, <<"\"", "\\", "\"">>,
     <<"\"", "a", "\n", "b", "\"">>,
     <<"\"", "\\", "u", "0", "0", "4", "1", "\"">>,
     <<"\"", "1", "\"", "x">>, <<"t", "r", "u", "e">>, <<"[", "1", "]">>,
     <<"\"", "\\", "b", "\"">>, <<"\"", Rune(8), "\"">>,
     <<"\"", Rune(127), "\"">>}

\* what http.Get may give DockerRegistryTagResolver.Resolve
ResolveHttp ==
    {[err |-> NilErr, resp |-> Resp(c[1], c[2], b)] :
        c \in {<<200, "200 OK">>, <<404, "404 Not Found">>,
               <<500, "500 Internal Server Error">>},
        b \in Bodies}
      \cup {[err |-> Err(<<"dial tcp: connection refused">>), resp |-> NilResp]}

\* DockerRegistryTagResolver.Resolve
DockerResolve(repo, tag, http) ==
    LET u == ParseURL(URLOf(repo, tag))
    IN  IF ~IsNil(u.err) THEN [id |-> <<>>, ret |-> u.err]
        ELSE IF ~IsNil(http.err)
             THEN [id |-> <<>>, ret |-> http.err]
             ELSE DecodeString(http.resp.Body)

\* TagResolver.Resolve on whichever implementation the field holds
Resolve(impl, repo, tag, env) ==
    CASE impl = DefaultTagResolver -> [id |-> <<>>, ret |-> NilErr]
      [] impl = "docker" -> DockerResolve(repo, tag, env)
      [] OTHER -> env

ResolveEnvs(impl) ==
    CASE impl = DefaultTagResolver -> {[id |-> <<>>, ret |-> NilErr]}
      [] impl = "docker" -> ResolveHttp
      [] OTHER -> ResolveOuts

----------------------------------------------------------------------------
(* Quayd *)

\* statusesRepository returning the field as it is, unset or not
taggerAlwaysDefault(qq) ==
    [q |-> [qq EXCEPT !.Tagger = DefaultTagger], impl |-> DefaultTagger]

\* statusesRepository returning the fallback whatever the field holds
statusesRepositoryAlwaysDefault(qq) == DefaultStatusesRepository

\* Quayd.statusesRepository: the fallback is returned, the field is not written
statusesRepository(qq) ==
    IF qq.StatusesRepository = Nil
    THEN DefaultStatusesRepository
    ELSE qq.StatusesRepository

\* tagger returning the fallback without storing it, as statusesRepository does
taggerNoStore(qq) ==
    LET impl == IF qq.Tagger = Nil THEN DefaultTagger ELSE qq.Tagger
    IN  [q |-> qq, impl |-> impl]

\* Quayd.tagger: the fallback is stored in the field
tagger(qq) ==
    LET impl == IF qq.Tagger = Nil THEN DefaultTagger ELSE qq.Tagger
    IN  [q |-> [qq EXCEPT !.Tagger = impl], impl |-> impl]

\* Quayd.tagResolver: the fallback is stored in the field
tagResolver(qq) ==
    LET impl == IF qq.TagResolver = Nil THEN DefaultTagResolver ELSE qq.TagResolver
    IN  [q |-> [qq EXCEPT !.TagResolver = impl], impl |-> impl]

\* Handle with the description left out of the status
HandleNoDescription(qq, list, repo, commit, url, state, env) ==
    LET status == [Repo |-> repo, TargetURL |-> url, Ref |-> commit,
                   State |-> state, Description |-> "", Context |-> Context]
        impl == statusesRepository(qq)
        r == Create(impl, list, status, env)
    IN  [statuses |-> r.statuses,
         calls |-> <<[op |-> "Create", impl |-> impl, status |-> status,
                      remote |-> r.remote, ret |-> r.ret]>>,
         ret |-> r.ret]

\* Handle dropping what Create returned
HandleSwallow(qq, list, repo, commit, url, state, env) ==
    LET status == [Repo |-> repo, TargetURL |-> url, Ref |-> commit,
                   State |-> state, Description |-> StatusesLookup(state),
                   Context |-> Context]
        impl == statusesRepository(qq)
        r == Create(impl, list, status, env)
    IN  [statuses |-> r.statuses,
         calls |-> <<[op |-> "Create", impl |-> impl, status |-> status,
                      remote |-> r.remote, ret |-> r.ret]>>,
         ret |-> NilErr]

\* Handle with the repository and the commit taking each other's place
HandleSwappedRef(qq, list, repo, commit, url, state, env) ==
    LET status == [Repo |-> commit, TargetURL |-> url, Ref |-> repo,
                   State |-> state, Description |-> StatusesLookup(state),
                   Context |-> Context]
        impl == statusesRepository(qq)
        r == Create(impl, list, status, env)
    IN  [statuses |-> r.statuses,
         calls |-> <<[op |-> "Create", impl |-> impl, status |-> status,
                      remote |-> r.remote, ret |-> r.ret]>>,
         ret |-> r.ret]

\* Handle going on to resolve the image after the status of a successful build
HandleThenResolve(qq, list, repo, commit, url, state, env) ==
    LET status == [Repo |-> repo, TargetURL |-> url, Ref |-> commit,
                   State |-> state, Description |-> StatusesLookup(state),
                   Context |-> Context]
        impl == statusesRepository(qq)
        r == Create(impl, list, status, env)
        tr == tagResolver(qq)
        res == Resolve(tr.impl, repo, commit, [id |-> <<>>, ret |-> NilErr])
    IN  [statuses |-> r.statuses,
         calls |-> <<[op |-> "Create", impl |-> impl, status |-> status,
                      remote |-> r.remote, ret |-> r.ret]>>
                   \o (IF state = "success" /\ IsNil(r.ret)
                       THEN <<[op |-> "Resolve", impl |-> tr.impl,
                               repo |-> repo, tag |-> commit,
                               id |-> res.id, ret |-> res.ret]>>
                       ELSE <<>>),
         ret |-> r.ret]

\* Quayd.Handle
Handle(qq, list, repo, commit, url, state, env) ==
    LET status == [Repo |-> repo, TargetURL |-> url, Ref |-> commit,
                   State |-> state, Description |-> StatusesLookup(state),
                   Context |-> Context]
        impl == statusesRepository(qq)
        r == Create(impl, list, status, env)
    IN  [statuses |-> r.statuses,
         calls |-> <<[op |-> "Create", impl |-> impl, status |-> status,
                      remote |-> r.remote, ret |-> r.ret]>>,
         ret |-> r.ret]

\* the result of an operation that has not run, and of one that has not ended
NoResult == [kind |-> "none", msg |-> <<>>]

Running == [kind |-> "running", msg |-> <<>>]

\* what LoadImageTags does next: a call on a capability, or its return
DoResolve(tr, repo, tag) ==
    [q |-> tr.q, do |-> "Resolve", impl |-> tr.impl, repo |-> repo,
     imageID |-> <<>>, tag |-> tag, ret |-> Running]

DoTag(tg, repo, imageID, tag) ==
    [q |-> tg.q, do |-> "Tag", impl |-> tg.impl, repo |-> repo,
     imageID |-> imageID, tag |-> tag, ret |-> Running]

DoReturn(qq, ret) ==
    [q |-> qq, do |-> "return", impl |-> Nil, repo |-> <<>>, imageID |-> <<>>,
     tag |-> <<>>, ret |-> ret]

\* LoadImageTags applying the image id tag before the commit tag
LoadImageTagsSwapped(qq, tag, repo, commit, calls) ==
    CASE Len(calls) = 0 -> DoResolve(tagResolver(qq), repo, tag)
      [] Len(calls) = 1 ->
            IF ~IsNil(calls[1].ret)
            THEN DoReturn(qq, calls[1].ret)
            ELSE DoTag(tagger(qq), repo, calls[1].id, calls[1].id)
      [] Len(calls) = 2 ->
            IF ~IsNil(calls[2].ret)
            THEN DoReturn(qq, calls[2].ret)
            ELSE DoTag(tagger(qq), repo, calls[1].id, commit)
      [] OTHER -> DoReturn(qq, calls[3].ret)

\* LoadImageTags going on to the second tag after the first one failed
LoadImageTagsContinue(qq, tag, repo, commit, calls) ==
    CASE Len(calls) = 0 -> DoResolve(tagResolver(qq), repo, tag)
      [] Len(calls) = 1 ->
            IF ~IsNil(calls[1].ret)
            THEN DoReturn(qq, calls[1].ret)
            ELSE DoTag(tagger(qq), repo, calls[1].id, commit)
      [] Len(calls) = 2 ->
            IF IsPanic(calls[2].ret)
            THEN DoReturn(qq, calls[2].ret)
            ELSE DoTag(tagger(qq), repo, calls[1].id, calls[1].id)
      [] OTHER -> DoReturn(qq, IF IsNil(calls[2].ret) THEN calls[3].ret
                                                     ELSE calls[2].ret)

\* LoadImageTags dropping what the second Tag returned
LoadImageTagsSwallow(qq, tag, repo, commit, calls) ==
    CASE Len(calls) = 0 -> DoResolve(tagResolver(qq), repo, tag)
      [] Len(calls) = 1 ->
            IF ~IsNil(calls[1].ret)
            THEN DoReturn(qq, calls[1].ret)
            ELSE DoTag(tagger(qq), repo, calls[1].id, commit)
      [] Len(calls) = 2 ->
            IF ~IsNil(calls[2].ret)
            THEN DoReturn(qq, calls[2].ret)
            ELSE DoTag(tagger(qq), repo, calls[1].id, calls[1].id)
      [] OTHER -> DoReturn(qq, NilErr)

\* Quayd.LoadImageTags from where it stands to its next call on a capability:
\* calls are the calls it has made, each with what it returned.  The
\* resolver is looked up, and stored if unset, before Resolve; the tagger
\* before each Tag
LoadImageTags(qq, tag, repo, commit, calls) ==
    CASE Len(calls) = 0 -> DoResolve(tagResolver(qq), repo, tag)
      [] Len(calls) = 1 ->
            IF ~IsNil(calls[1].ret)
            THEN DoReturn(qq, calls[1].ret)
            ELSE DoTag(tagger(qq), repo, calls[1].id, commit)
      [] Len(calls) = 2 ->
            IF ~IsNil(calls[2].ret)
            THEN DoReturn(qq, calls[2].ret)
            ELSE DoTag(tagger(qq), repo, calls[1].id, calls[1].id)
      [] OTHER -> DoReturn(qq, calls[3].ret)

----------------------------------------------------------------------------
(* The registry's side of a tag write *)

\* the image id a write's body "<imageID>" names
Unquote(body) == SubSeq(body, 2, Len(body) - 1)

\* the registry applies the writes in order, naming each tag by the tag of the
\* call that wrote it
RECURSIVE ApplyWrites(_, _, _)
ApplyWrites(reg, applied, writes) ==
    IF writes = <<>>
    THEN [registry |-> reg, puts |-> applied]
    ELSE LET w == Head(writes)
             after == RegistryPut(reg, w.repo, w.tag, Unquote(w.body))
         IN  ApplyWrites(after,
                         Append(applied, [repo |-> w.repo, tag |-> w.tag,
                                          imageID |-> Unquote(w.body),
                                          before |-> reg, after |-> after]),
                         Tail(writes))

----------------------------------------------------------------------------
(* Operations *)

UnknownStatus == [kind |-> "rejected", msg |-> <<"unknown status">>]

ManualTrigger == [kind |-> "ignored", msg |-> <<"manual trigger">>]

Idle == pc \in {"idle", "done"}

\* the fake sink's list is explored up to MaxStatuses records
Room == statusesRepository(q) = DefaultStatusesRepository
            => Len(statuses) < MaxStatuses

\* the three recognized values of a reported state
Recognized(state) == state \in {"pending", "success", "failure"}

Events ==
    [repo : Repos, commit : Commits, url : URLs, state : States, tag : Tags,
     manual : BOOLEAN]

\* the server passing every reported state on to the handler
WebhookReceiveAnyState(e) ==
    /\ Idle
    /\ Room
    /\ op' = [kind |-> "webhook", repo |-> e.repo, commit |-> e.commit,
              url |-> e.url, state |-> e.state, tag |-> e.tag,
              manual |-> e.manual]
    /\ log' = <<>>
    /\ IF e.manual
       THEN pc' = "done" /\ result' = ManualTrigger
       ELSE pc' = "handle" /\ result' = Running
    /\ UNCHANGED <<q, statuses, registry, puts, quayds, creating>>

\* the server passing a manually triggered build on to the handler
WebhookReceiveManualToo(e) ==
    /\ Idle
    /\ Room
    /\ op' = [kind |-> "webhook", repo |-> e.repo, commit |-> e.commit,
              url |-> e.url, state |-> e.state, tag |-> e.tag,
              manual |-> e.manual]
    /\ log' = <<>>
    /\ IF ~Recognized(e.state)
       THEN pc' = "done" /\ result' = UnknownStatus
       ELSE pc' = "handle" /\ result' = Running
    /\ UNCHANGED <<q, statuses, registry, puts, quayds, creating>>

\* the server takes a webhook: an unrecognised state and a manually triggered
\* build end here, before anything is called
WebhookReceive(e) ==
    /\ Idle
    /\ Room
    /\ op' = [kind |-> "webhook", repo |-> e.repo, commit |-> e.commit,
              url |-> e.url, state |-> e.state, tag |-> e.tag,
              manual |-> e.manual]
    /\ log' = <<>>
    /\ IF ~Recognized(e.state)
       THEN pc' = "done" /\ result' = UnknownStatus
       ELSE IF e.manual
            THEN pc' = "done" /\ result' = ManualTrigger
            ELSE pc' = "handle" /\ result' = Running
    /\ UNCHANGED <<q, statuses, registry, puts, quayds, creating>>

\* the server calls Handle; an error ends the request
WebhookHandle ==
    /\ pc = "handle"
    /\ \E env \in CreateEnvs(statusesRepository(q)) :
        LET h == Handle(q, statuses, op.repo, op.commit, op.url, op.state, env)
        IN  /\ statuses' = h.statuses
            /\ log' = log \o h.calls
            /\ IF ~IsNil(h.ret)
               THEN pc' = "done" /\ result' = h.ret
               ELSE IF op.state = "success"
                    THEN pc' = "tags" /\ result' = Running
                    ELSE pc' = "done" /\ result' = h.ret
    /\ UNCHANGED <<q, registry, puts, op, quayds, creating>>

\* the calls the running LoadImageTags has made
CallsMade == IF op.kind = "webhook" THEN Tail(log) ELSE log

\* the call of a step, as the log keeps it
ResolveCall(n, r) ==
    [op |-> "Resolve", impl |-> n.impl, repo |-> n.repo, tag |-> n.tag,
     id |-> r.id, ret |-> r.ret]

TagCall(n, r) ==
    [op |-> "Tag", impl |-> n.impl, repo |-> n.repo, imageID |-> n.imageID,
     tag |-> n.tag, ret |-> r.ret]

\* LoadImageTags goes on once the call of the step has returned: to its own
\* return, which ends the operation, or to the point of its next call
Resume(qq, call) ==
    \E after \in {LoadImageTags(qq, op.tag, op.repo, op.commit,
                                Append(CallsMade, call))} :
        /\ log' = Append(log, call)
        /\ IF after.do = "return"
           THEN pc' = "done" /\ result' = after.ret
           ELSE pc' = "tags" /\ result' = Running

\* LoadImageTags, running for the server after a successful build's status or
\* called on its own, looks up the resolver and calls Resolve
LoadImageTagsResolve ==
    /\ pc = "tags"
    /\ \E n \in {LoadImageTags(q, op.tag, op.repo, op.commit, CallsMade)} :
        /\ n.do = "Resolve"
        /\ \E env \in ResolveEnvs(n.impl) :
            \E r \in {Resolve(n.impl, n.repo, n.tag, env)} :
                /\ q' = n.q
                /\ Resume(n.q, ResolveCall(n, r))
    /\ UNCHANGED <<statuses, registry, puts, op, quayds, creating>>

\* LoadImageTags looks up the tagger and calls Tag, for the commit and then
\* for the image id
LoadImageTagsTag ==
    /\ pc = "tags"
    /\ \E n \in {LoadImageTags(q, op.tag, op.repo, op.commit, CallsMade)} :
        /\ n.do = "Tag"
        /\ \E env \in TagEnvs(n.impl) :
            \E r \in {Tag(n.impl, n.repo, n.imageID, n.tag, env)} :
                LET w == ApplyWrites(registry, puts, r.write)
                IN  /\ Len(puts) + Len(r.write) <= MaxPuts
                    /\ q' = n.q
                    /\ registry' = w.registry
                    /\ puts' = w.puts
                    /\ Resume(n.q, TagCall(n, r))
    /\ UNCHANGED <<statuses, op, quayds, creating>>

\* q.Handle(repo, commit, url, state) called on its own
CallHandle(repo, commit, url, state) ==
    /\ Idle
    /\ Room
    /\ \E env \in CreateEnvs(statusesRepository(q)) :
        LET h == Handle(q, statuses, repo, commit, url, state, env)
        IN  /\ statuses' = h.statuses
            /\ log' = h.calls
            /\ result' = h.ret
    /\ op' = [kind |-> "Handle", repo |-> repo, commit |-> commit, url |-> url,
              state |-> state]
    /\ pc' = "done"
    /\ UNCHANGED <<q, registry, puts, quayds, creating>>

\* q.LoadImageTags(tag, repo, commit) called on its own
CallLoadImageTags(tag, repo, commit) ==
    /\ Idle
    /\ op' = [kind |-> "LoadImageTags", tag |-> tag, repo |-> repo,
              commit |-> commit]
    /\ log' = <<>>
    /\ result' = Running
    /\ pc' = "tags"
    /\ UNCHANGED <<q, statuses, registry, puts, quayds, creating>>

\* statusesRepository.Reset on the fake sink
Reset ==
    /\ Idle
    /\ statuses' = <<>>
    /\ op' = [kind |-> "Reset"]
    /\ log' = <<>>
    /\ result' = NoResult
    /\ pc' = "done"
    /\ UNCHANGED <<q, registry, puts, quayds, creating>>

\* a Quayd with each capability left unset or set to some implementation
Init ==
    /\ q \in [StatusesRepository : {Nil, "custom"}, Tagger : {Nil, "custom"},
              TagResolver : {Nil, "custom"}]
    /\ statuses = <<>>
    /\ registry = <<>>
    /\ puts = <<>>
    /\ pc = "idle"
    /\ op = [kind |-> "none"]
    /\ log = <<>>
    /\ result = NoResult
    /\ quayds = <<>>
    /\ creating = <<>>

Next ==
    \/ \E e \in Events : WebhookReceive(e)
    \/ WebhookHandle
    \/ LoadImageTagsResolve
    \/ LoadImageTagsTag
    \/ \E repo \in Repos, commit \in Commits, url \in URLs, state \in States :
        CallHandle(repo, commit, url, state)
    \/ \E tag \in Tags, repo \in Repos, commit \in Commits :
        CallLoadImageTags(tag, repo, commit)
    \/ Reset

Spec == Init /\ [][Next]_vars

----------------------------------------------------------------------------
(* The network-backed adapters, as New wires them *)

\* the Quayd a program has before New returned one: the zero value
NoQuayd == [StatusesRepository |-> Nil, Tagger |-> Nil, TagResolver |-> Nil]

\* New(token, registryAuth): the Quayd wired to the network-backed adapters,
\* the tagger holding the two first pieces of registryAuth cut at ':' as user
\* name and password.  auth[1] is read unchecked: a registryAuth without ':'
\* splits into one piece and the read panics, no Quayd being returned
New(token, registryAuth) ==
    LET auth == SplitOn(registryAuth, ":")
    IN  IF Len(auth) < 2
        THEN [ret |-> Panic(<<"index out of range [1] with length 1">>),
              q |-> NoQuayd,
              tagger |-> [registry |-> "", username |-> <<>>,
                          password |-> <<>>]]
        ELSE [ret |-> NilErr,
              q |-> [StatusesRepository |-> "github", Tagger |-> "docker",
                     TagResolver |-> "docker"],
              tagger |-> [registry |-> "quay.io", username |-> auth[1],
                          password |-> auth[2]]]

\* the token and the registry credentials the program is started with
Tokens == {<<"k">>}

RegistryAuths ==
    {<<"u", ":", "p">>, <<"u", ":", "p", ":", "x">>, <<":">>, <<"u">>, <<>>}

\* the program after New(token, registryAuth): serving with the Quayd it
\* returned, or stopped by its panic
AfterNew(token, registryAuth) ==
    LET n == New(token, registryAuth)
    IN  /\ q = n.q
        /\ pc = IF IsPanic(n.ret) THEN "panicked" ELSE "idle"
        /\ op = [kind |-> "New", token |-> token, registryAuth |-> registryAuth,
                 tagger |-> n.tagger]
        /\ result = n.ret
        /\ log = <<>>

\* (&DockerRegistryTagger{...}).Tag(repo, imageID, tag)
CallDockerTag(repo, imageID, tag, http) ==
    /\ Idle
    /\ \E r \in {Tag("docker", repo, imageID, tag, http)} :
       LET w == ApplyWrites(registry, puts, r.write)
       IN  /\ Len(puts) + Len(r.write) <= MaxPuts
           /\ registry' = w.registry
           /\ puts' = w.puts
           /\ log' = <<[op |-> "Tag", impl |-> "docker", repo |-> repo,
                        imageID |-> imageID, tag |-> tag, ret |-> r.ret]>>
           /\ result' = r.ret
    /\ op' = [kind |-> "Tag", repo |-> repo, imageID |-> imageID, tag |-> tag,
              http |-> http]
    /\ pc' = "done"
    /\ UNCHANGED <<q, statuses, quayds, creating>>

\* (&DockerRegistryTagResolver{...}).Resolve(repo, tag)
CallDockerResolve(repo, tag, http) ==
    /\ Idle
    /\ \E r \in {Resolve("docker", repo, tag, http)} :
           /\ log' = <<[op |-> "Resolve", impl |-> "docker", repo |-> repo,
                        tag |-> tag, id |-> r.id, ret |-> r.ret]>>
           /\ result' = r.ret
    /\ op' = [kind |-> "Resolve", repo |-> repo, tag |-> tag, http |-> http]
    /\ pc' = "done"
    /\ UNCHANGED <<q, statuses, registry, puts, quayds, creating>>

\* the repository and the tag names of the registry explored
TagRepo == <<"o", "/", "n">>

TagNames == {<<"c">>, <<"1">>, <<"%">>}

\* the tags looked up: with an escape in upper-case hex, with an escape in the
\* query, which url.Parse leaves unread, with a fragment, and with a control
\* character (a newline, a backspace, a DEL) before or in the fragment
ResolverTagNames ==
    TagNames \cup {<<"%", "2", "F">>, <<"?", "%">>, <<"c", "#", "%">>,
                   <<"c", "#", "f">>, <<"\n">>, <<Rune(8)>>, <<Rune(127)>>,
                   <<"c", "#", Rune(8)>>}

\* the mappings the registry may hold before the first write
InitialRegistries ==
    UNION {[D -> ImageIDs] :
            D \in SUBSET {<<TagRepo, <<"c">>>>, <<TagRepo, <<"1">>>>}}

InitNew ==
    /\ \E token \in Tokens, registryAuth \in RegistryAuths :
          AfterNew(token, registryAuth)
    /\ statuses = <<>>
    /\ registry = <<>>
    /\ puts = <<>>
    /\ quayds = <<>>
    /\ creating = <<>>

\* statuses handed to the network-backed sink through Handle
NextGitHub ==
    \E repo \in SinkRepos, commit \in Commits, url \in URLs, state \in States :
        CallHandle(repo, commit, url, state)

SpecGitHub == InitNew /\ [][NextGitHub]_vars

\* lookups on the network-backed resolver
NextResolver ==
    \E repo \in Repos, tag \in ResolverTagNames, http \in ResolveHttp :
        CallDockerResolve(repo, tag, http)

SpecResolver == InitNew /\ [][NextResolver]_vars

InitTagger ==
    /\ \E token \in Tokens, registryAuth \in RegistryAuths :
          AfterNew(token, registryAuth)
    /\ statuses = <<>>
    /\ registry \in InitialRegistries
    /\ puts = <<>>
    /\ quayds = <<>>
    /\ creating = <<>>

\* tag writes on the network-backed tagger
NextTagger ==
    \E imageID \in ImageIDs, tag \in TagNames, http \in TagHttp :
        CallDockerTag(TagRepo, imageID, tag, http)

SpecTagger == InitTagger /\ [][NextTagger]_vars

\* tag stabilization on the Quayd that New wires: LoadImageTags resolving
\* and tagging on the registry, call by call
NextLoadImageTags ==
    \/ \E tag \in TagNames, commit \in Commits :
        CallLoadImageTags(tag, TagRepo, commit)
    \/ LoadImageTagsResolve
    \/ LoadImageTagsTag

SpecLoadImageTags == InitNew /\ [][NextLoadImageTags]_vars

----------------------------------------------------------------------------
(* Properties of the webhook pipeline, under Spec *)

IsCreateCall(c) == c.op = "Create"

IsResolveCall(c) == c.op = "Resolve"

IsTagCall(c) == c.op = "Tag"

Creates == SelectSeq(log, IsCreateCall)

Resolves == SelectSeq(log, IsResolveCall)

TagCalls == SelectSeq(log, IsTagCall)

TagArgs(c) == <<c.repo, c.imageID, c.tag>>

SuccessEvent == op.kind = "webhook" /\ op.state = "success" /\ ~op.manual

\* the success status for the event's (R, C) was created, with a nil return,
\* earlier in the log than every Tag call
StatusBeforeTags ==
    \A i \in 1..Len(log) :
        log[i].op = "Tag" =>
            \E j \in 1..(i - 1) :
                /\ log[j].op = "Create"
                /\ IsNil(log[j].ret)
                /\ log[j].status.State = "success"
                /\ log[j].status.Repo = op.repo
                /\ log[j].status.Ref = op.commit

\* C1 as stated: for a success event (R, T, C), once the resolver has returned
\* image I for (R, T), the tagger is invoked with (R, I, C) and then with
\* (R, I, I), after a success status for (R, C) was created.
C1_BothTagsAlways ==
    (SuccessEvent /\ pc = "done" /\ ~IsPanic(result)
        /\ Resolves # <<>> /\ IsNil(Resolves[1].ret)) =>
        /\ Len(TagCalls) = 2
        /\ TagArgs(TagCalls[1]) = <<op.repo, Resolves[1].id, op.commit>>
        /\ TagArgs(TagCalls[2]) = <<op.repo, Resolves[1].id, Resolves[1].id>>
        /\ StatusBeforeTags

\* C1 amended: for a success event (R, T, C) the resolver is asked for (R, T);
\* once it has returned image I, the tagger is invoked with (R, I, C) and, if
\* that call returns nil, afterwards with (R, I, I); if the first Tag call
\* fails the second is not made.  Every Tag call comes after a success status
\* for (R, C) was created by the sink.
C1_TagsInOrderAfterStatus ==
    SuccessEvent =>
        /\ StatusBeforeTags
        /\ Resolves # <<>> =>
              /\ Resolves[1].repo = op.repo
              /\ Resolves[1].tag = op.tag
        /\ (pc = "done" /\ Resolves # <<>> /\ IsNil(Resolves[1].ret)) =>
              /\ Len(TagCalls) >= 1
              /\ TagArgs(TagCalls[1]) = <<op.repo, Resolves[1].id, op.commit>>
              /\ IsNil(TagCalls[1].ret) =>
                    /\ Len(TagCalls) = 2
                    /\ TagArgs(TagCalls[2])
                          = <<op.repo, Resolves[1].id, Resolves[1].id>>
              /\ ~IsNil(TagCalls[1].ret) => Len(TagCalls) = 1
        /\ (Resolves = <<>> \/ ~IsNil(Resolves[1].ret)) => TagCalls = <<>>

\* a success event whose image was resolved and tagged twice
C1_Witness ==
    /\ SuccessEvent
    /\ pc = "done"
    /\ IsNil(result)
    /\ Len(TagCalls) = 2
    /\ TagCalls[1].tag = op.commit
    /\ TagCalls[2].tag = Resolves[1].id

\* C2: a pending or failure event that reaches the handler makes exactly one
\* Create call, with the event's state and the Statuses description of that
\* state, and no Resolve or Tag call.
C2_PendingFailureOneStatus ==
    (op.kind = "webhook" /\ op.state \in {"pending", "failure"} /\ ~op.manual) =>
        /\ Resolves = <<>>
        /\ TagCalls = <<>>
        /\ Len(Creates) <= 1
        /\ pc # "tags"
        /\ pc = "done" =>
              /\ Len(Creates) = 1
              /\ Creates[1].status.State = op.state
              /\ Creates[1].status.Description = Statuses[op.state]
              /\ Creates[1].status.Repo = op.repo
              /\ Creates[1].status.Ref = op.commit
              /\ Creates[1].impl = DefaultStatusesRepository =>
                    /\ statuses # <<>>
                    /\ statuses[Len(statuses)] = Creates[1].status

\* a failure event handled, its one status recorded by the fake sink
C2_Witness ==
    /\ op.kind = "webhook"
    /\ op.state = "failure"
    /\ ~op.manual
    /\ pc = "done"
    /\ Len(Creates) = 1
    /\ Creates[1].impl = DefaultStatusesRepository
    /\ statuses[Len(statuses)].Description = "The Docker image failed to build"

\* C3: an event whose state is none of pending, success, failure ends at once
\* with no call on the sink, the resolver or the tagger, and with the
\* "unknown status" rejection, which no adapter error equals.
C3_UnknownStateRejected ==
    (op.kind = "webhook" /\ op.state \notin {"pending", "success", "failure"}) =>
        /\ log = <<>>
        /\ pc = "done"
        /\ result = UnknownStatus
        /\ result \notin SinkRets \cup TagRets \cup {o.ret : o \in ResolveOuts}
        /\ ~IsErr(result) /\ ~IsNil(result) /\ ~IsPanic(result)

\* the event of TestWebhook_InvalidStatus, rejected with records in the sink
C3_Witness ==
    /\ op.kind = "webhook"
    /\ op.state = "foo"
    /\ ~op.manual
    /\ pc = "done"
    /\ statuses # <<>>
    /\ \A i \in 1..Len(statuses) : statuses[i].State # "foo"

\* C4: on a success event, a Create that returns an error is the only call of
\* the event: Resolve and Tag are not invoked, and that error is the result.
C4_CreateErrorAborts ==
    SuccessEvent =>
        \A i \in 1..Len(log) :
            (log[i].op = "Create" /\ IsErr(log[i].ret)) =>
                /\ Len(log) = 1
                /\ pc = "done"
                /\ result = log[i].ret

\* a success event whose status creation failed
C4_Witness ==
    /\ SuccessEvent
    /\ pc = "done"
    /\ Len(log) = 1
    /\ log[1].op = "Create"
    /\ IsErr(log[1].ret)
    /\ result = log[1].ret

\* a step in which LoadImageTags runs: it makes one call on a capability
LoadImageTagsStep == pc = "tags"

\* the calls made in a step
NewCalls ==
    IF pc \in {"handle", "tags"} THEN SubSeq(log', Len(log) + 1, Len(log'))
    ELSE log'

\* C5: in LoadImageTags a failed Resolve is followed by no Tag call, a failed
\* first Tag call by no second one; Resolve is called at most once and Tag at
\* most twice, the first for the commit and the second for the image id.  A
\* call that does not return nil ends the run, so that nothing is called and
\* nothing written after it; Resolve writes nothing to the registry, and a
\* Tag call at most the one tag it was called for.
C5_FirstFailureStops ==
    /\ [](op.kind = "LoadImageTags" =>
            /\ Len(Resolves) <= 1
            /\ Len(TagCalls) <= 2
            /\ (Resolves = <<>> \/ ~IsNil(Resolves[1].ret)) => TagCalls = <<>>
            /\ (TagCalls # <<>> /\ ~IsNil(TagCalls[1].ret)) => Len(TagCalls) = 1
            /\ TagCalls # <<>> => TagCalls[1].tag = op.commit
            /\ Len(TagCalls) = 2 => TagCalls[2].tag = TagCalls[2].imageID
            /\ (log # <<>> /\ ~IsNil(log[Len(log)].ret)) => pc = "done")
    /\ [][LoadImageTagsStep =>
            /\ NewCalls[1].op = "Resolve" => puts' = puts
            /\ NewCalls[1].op = "Tag" =>
                  \/ puts' = puts
                  \/ /\ Len(puts') = Len(puts) + 1
                     /\ SubSeq(puts', 1, Len(puts)) = puts
                     /\ puts'[Len(puts')].repo = NewCalls[1].repo
                     /\ puts'[Len(puts')].tag = NewCalls[1].tag
                     /\ puts'[Len(puts')].imageID = NewCalls[1].imageID]_vars

\* LoadImageTags stopped by the first Tag call's error, no tag being written:
\* the registry is as it was when the program started
C5_Witness ==
    /\ op.kind = "LoadImageTags"
    /\ pc = "done"
    /\ Len(Resolves) = 1
    /\ Len(TagCalls) = 1
    /\ IsErr(TagCalls[1].ret)
    /\ puts = <<>>

\* C6: Handle returns what Create returned; LoadImageTags returns nil exactly
\* when Resolve and both Tag calls were made and returned nil, and otherwise
\* returns the value of the first call that did not return nil.
C6_LeafErrorReturned ==
    /\ (op.kind = "Handle" /\ pc = "done") =>
          /\ Len(log) = 1
          /\ result = log[1].ret
    /\ (op.kind = "LoadImageTags" /\ pc = "done") =>
          /\ IsNil(result) <=>
                /\ Len(Resolves) = 1
                /\ Len(TagCalls) = 2
                /\ \A i \in 1..Len(log) : IsNil(log[i].ret)
          /\ ~IsNil(result) =>
                \E i \in 1..Len(log) :
                    /\ ~IsNil(log[i].ret)
                    /\ \A j \in 1..(i - 1) : IsNil(log[j].ret)
                    /\ result = log[i].ret

\* LoadImageTags returning the error of its second Tag call
C6_Witness ==
    /\ op.kind = "LoadImageTags"
    /\ pc = "done"
    /\ Len(log) = 3
    /\ IsErr(log[3].ret)
    /\ result = log[3].ret

----------------------------------------------------------------------------
(* Properties of the network-backed sink, under SpecGitHub *)

\* exactly two non-empty segments around one '/'
WellFormedRepo(r) ==
    /\ Cardinality(SlashAt(r)) = 1
    /\ r[1] # "/"
    /\ r[Len(r)] # "/"

\* C7: a repository string that is not owner/name makes the network-backed
\* sink's Create return an error, without a CreateStatus call.
C7_MalformedRepoIsError ==
    (op.kind = "Handle" /\ pc = "done" /\ log[1].impl = "github"
        /\ ~WellFormedRepo(op.repo)) =>
        /\ IsErr(result)
        /\ log[1].remote = <<>>

----------------------------------------------------------------------------
(* Properties of the network-backed resolver, under SpecResolver *)

\* the body's first JSON value is a string
JSONStringBody(body) ==
    LET read == readValue(ResetScanner, body, 1)
    IN  /\ IsNil(read.err)
        /\ SkipSpace(SubSeq(body, 1, read.n))[1] = "\""

\* C9: Resolve returns an error and no image id on a transport failure, on a
\* status code outside 2xx and on a body that is not a JSON string, and an
\* image id only for a 2xx response whose body is a JSON string.
C9_ResolveFailureModes ==
    (op.kind = "Resolve" /\ pc = "done" /\ URLParses(op.repo, op.tag)) =>
        LET failure == \/ ~IsNil(op.http.err)
                       \/ op.http.resp.StatusCode \notin 200..299
                       \/ ~JSONStringBody(op.http.resp.Body)
        IN  /\ failure => (IsErr(result) /\ log[1].id = <<>>)
            /\ IsNil(result) => ~failure

----------------------------------------------------------------------------
(* Properties of the network-backed tagger, under SpecTagger *)

\* C8: Tag returns a non-nil error naming the response status on a transport
\* error and on a status code of 300 or more, and nil exactly when the request
\* completed with a status code below 300.
C8_TagErrorCarriesStatus ==
    (op.kind = "Tag" /\ pc = "done" /\ URLParses(op.repo, op.tag)) =>
        LET failure == ~IsNil(op.http.err) \/ op.http.resp.StatusCode >= 300
        IN  /\ failure => IsErr(result)
            /\ (failure /\ ~op.http.resp.nil) =>
                  \E i \in 1..Len(result.msg) : result.msg[i] = op.http.resp.Status
            /\ IsNil(result) <=> ~failure

SameWrite(a, b) == a.repo = b.repo /\ a.tag = b.tag /\ a.imageID = b.imageID

Holds(reg, repo, tag, imageID) ==
    <<repo, tag>> \in DOMAIN reg /\ reg[<<repo, tag>>] = imageID

\* C10: a Tag call that returned nil is the registry's last applied write and
\* left tag -> imageID in the mapping; the same write applied twice in a row leaves the mapping as the
\* first application left it, whatever it was before; the two writes of a
\* stabilisation run, applied to a mapping that holds a run's result already,
\* leave it as it was.
C10_TagIdempotent ==
    /\ (op.kind = "Tag" /\ pc = "done" /\ IsNil(result)) =>
          /\ puts # <<>>
          /\ puts[Len(puts)].repo = op.repo
          /\ puts[Len(puts)].tag = op.tag
          /\ puts[Len(puts)].imageID = op.imageID
          /\ registry = puts[Len(puts)].after
          /\ Holds(registry, op.repo, op.tag, op.imageID)
    /\ \A i \in 1..Len(puts) :
          /\ Holds(puts[i].after, puts[i].repo, puts[i].tag, puts[i].imageID)
          /\ \A k \in DOMAIN puts[i].before :
                k # <<puts[i].repo, puts[i].tag>> =>
                    /\ k \in DOMAIN puts[i].after
                    /\ puts[i].after[k] = puts[i].before[k]
    /\ \A i \in 1..(Len(puts) - 1) :
          /\ puts[i + 1].before = puts[i].after
          /\ SameWrite(puts[i], puts[i + 1]) => puts[i + 1].after = puts[i].after
          /\ (/\ puts[i].repo = puts[i + 1].repo
              /\ puts[i].imageID = puts[i + 1].imageID
              /\ puts[i + 1].tag = puts[i + 1].imageID
              /\ Holds(puts[i].before, puts[i].repo, puts[i].tag, puts[i].imageID)
              /\ Holds(puts[i].before, puts[i].repo, puts[i].imageID,
                       puts[i].imageID))
                => puts[i + 1].after = puts[i].before

\* a tag moved to another image by a write, and the same write applied again;
\* then the image-id tag of the run written onto a mapping that holds it
C10_Witness ==
    /\ Len(puts) = 3
    /\ SameWrite(puts[1], puts[2])
    /\ puts[1].before # puts[1].after
    /\ <<puts[1].repo, puts[1].tag>> \in DOMAIN puts[1].before
    /\ puts[2].imageID = puts[3].imageID
    /\ puts[3].tag = puts[3].imageID
    /\ puts[2].tag # puts[3].tag
    /\ Holds(puts[2].before, puts[2].repo, puts[2].imageID, puts[2].imageID)
    /\ op.kind = "Tag"
    /\ IsNil(result)

----------------------------------------------------------------------------
(* Dependency defaulting, under Spec *)

\* the implementation a capability field stands for
Resolved(field, default) == IF field = Nil THEN default ELSE field

\* a step in which Handle runs: the server's call for a webhook, or a direct call
HandleStep == pc = "handle" \/ (Idle /\ op'.kind = "Handle")

\* C11: whichever of the three capabilities are configured, every call that a
\* step of Handle or LoadImageTags makes goes to the implementation its field
\* held before the step where the field was set, and to the package's fake
\* where it was unset, each field on its own; the fakes return nil, so an
\* operation ends in a fault only where a configured implementation's own
\* call faulted.
C11_DefaultingIndependent ==
    /\ [](/\ \A i \in 1..Len(log) :
               log[i].impl \in {DefaultStatusesRepository, DefaultTagResolver,
                                DefaultTagger}
                   => IsNil(log[i].ret)
          /\ (pc = "done" /\ op.kind \in {"Handle", "LoadImageTags"}) =>
                /\ log # <<>>
                /\ result = log[Len(log)].ret
                /\ IsPanic(result) => log[Len(log)].impl = "custom"
                /\ (\A i \in 1..Len(log) : log[i].impl # "custom")
                      => IsNil(result))
    /\ [][(HandleStep \/ LoadImageTagsStep) =>
            /\ NewCalls # <<>>
            /\ \A i \in 1..Len(NewCalls) :
                LET c == NewCalls[i]
                IN  /\ IsCreateCall(c) =>
                         c.impl = Resolved(q.StatusesRepository,
                                           DefaultStatusesRepository)
                    /\ IsResolveCall(c) =>
                         c.impl = Resolved(q.TagResolver, DefaultTagResolver)
                    /\ IsTagCall(c) =>
                         c.impl = Resolved(q.Tagger, DefaultTagger)]_vars

\* LoadImageTags on a Quayd with only the resolver configured: the configured
\* resolver and the fake tagger were called, the sink is still unset
C11_Witness ==
    /\ op.kind = "LoadImageTags"
    /\ pc = "done"
    /\ q.StatusesRepository = Nil
    /\ Len(log) = 3
    /\ log[1].impl = "custom"
    /\ log[2].impl = DefaultTagger
    /\ log[3].impl = DefaultTagger
    /\ IsNil(result)

----------------------------------------------------------------------------
(* The status of an event, under Spec *)

\* the step that calls LoadImageTags on its own
LoadImageTagsEntry == Idle /\ op'.kind = "LoadImageTags"

\* C12: handling an event (repo, commit, url, state) with a recognized state
\* passes exactly one status to the sink, with Repo = repo, Ref = commit,
\* State = state, TargetURL = url, Context = "Docker Image" and Description =
\* the Statuses message of the state; the fake sink's list grows by exactly
\* that one status.
C12_StatusOfEvent ==
    [][(HandleStep /\ Recognized(op'.state)) =>
          LET new == IF pc = "handle"
                     THEN SubSeq(log', Len(log) + 1, Len(log'))
                     ELSE log'
              expected == [Repo |-> op'.repo, TargetURL |-> op'.url,
                           Ref |-> op'.commit, State |-> op'.state,
                           Description |-> Statuses[op'.state],
                           Context |-> "Docker Image"]
          IN  /\ Len(new) = 1
              /\ new[1].op = "Create"
              /\ new[1].status = expected
              /\ op'.state = "pending" =>
                    new[1].status.Description = "The Docker image is building"
              /\ new[1].impl = DefaultStatusesRepository =>
                    statuses' = Append(statuses, expected)
              /\ new[1].impl # DefaultStatusesRepository =>
                    statuses' = statuses]_vars

\* a pending event handled: the fake sink holds its one status
C12_Witness ==
    /\ op.kind = "webhook"
    /\ op.state = "pending"
    /\ pc = "done"
    /\ Len(log) = 1
    /\ log[1].impl = DefaultStatusesRepository
    /\ statuses = <<[Repo |-> op.repo, TargetURL |-> op.url, Ref |-> op.commit,
                     State |-> "pending",
                     Description |-> "The Docker image is building",
                     Context |-> "Docker Image"]>>

----------------------------------------------------------------------------
(* The fake tagger, under Spec *)

\* the fake: tagger.Tag returns nil and stores nothing; type tagger struct{}
\* has no field to store anything in
FakeTag(tags, repo, imageID, tag) == [tags |-> tags, ret |-> NilErr]

\* what the fake tagger holds after a sequence of Tag calls, as a set of
\* <<image id, tag>> records
RECURSIVE FakeTaggerTags(_, _)
FakeTaggerTags(tags, calls) ==
    IF calls = <<>>
    THEN tags
    ELSE LET c == Head(calls)
         IN  FakeTaggerTags(FakeTag(tags, c.repo, c.imageID, c.tag).tags,
                            Tail(calls))

IsFakeTagCall(c) == c.op = "Tag" /\ c.impl = DefaultTagger

\* C13 as stated: after a success event for commit C with the fake tagger and
\* a registry tag resolved to image I, the fake tagger holds a record I -> C
\* and a record I -> I, the later (I, I) application not replacing I -> C.
C13_FakeTaggerRecordsBoth ==
    (SuccessEvent /\ pc = "done" /\ IsNil(result)
        /\ Len(TagCalls) = 2 /\ \A i \in 1..2 : IsFakeTagCall(TagCalls[i])) =>
        LET I == Resolves[1].id
            C == op.commit
            held == FakeTaggerTags({}, SelectSeq(log, IsFakeTagCall))
        IN  /\ <<I, C>> \in held
            /\ <<I, I>> \in held

----------------------------------------------------------------------------
(* The fake sink's record list, under Spec *)

\* a step in which Reset runs on the fake sink
ResetStep == Idle /\ op'.kind = "Reset"

\* C14: every Create call on the fake sink returns nil and extends the record
\* list at its end by the status passed, equal to an earlier one or not;
\* Reset leaves the list empty; nothing else changes the list.  The list is
\* therefore the statuses passed to Create since the last Reset, in call
\* order, one entry per call.
C14_FakeSinkList ==
    [][LET created == HandleStep
                        /\ log'[Len(log')].impl = DefaultStatusesRepository
       IN  /\ created =>
                /\ statuses' = Append(statuses, log'[Len(log')].status)
                /\ IsNil(log'[Len(log')].ret)
                /\ IsNil(result') \/ result' = Running
           /\ ResetStep => statuses' = <<>>
           /\ (~created /\ ~ResetStep) => statuses' = statuses]_vars

\* two equal statuses passed to Create one after the other, both kept
C14_Witness ==
    /\ op.kind = "Handle"
    /\ pc = "done"
    /\ log[1].impl = DefaultStatusesRepository
    /\ Len(statuses) = 2
    /\ statuses[1] = statuses[2]
    /\ statuses[2] = log[1].status

----------------------------------------------------------------------------
(* Manually triggered builds, under Spec *)

\* C15: a webhook of a manually triggered build ends in the step that
\* receives it, whatever state it reports: no call on the sink, the resolver
\* or the tagger, the fake sink's list, the registry and the Quayd as they
\* were, and the handler not entered.
C15_ManualNeverHandled ==
    [][(Idle /\ op'.kind = "webhook" /\ op'.manual) =>
          /\ pc' = "done"
          /\ log' = <<>>
          /\ result' \in {ManualTrigger, UnknownStatus}
          /\ UNCHANGED <<q, statuses, registry, puts>>]_vars

\* the webhook of TestWebhook_ManualTrigger, and one reporting success, ignored
C15_Witness ==
    /\ op.kind = "webhook"
    /\ op.manual
    /\ op.state \in {"pending", "success"}
    /\ pc = "done"
    /\ result = ManualTrigger
    /\ log = <<>>
    /\ statuses = <<>>

----------------------------------------------------------------------------
(* Two Create calls running concurrently on the fake sink *)

Goroutines == {"g1", "g2"}

\* the package's Default Quayd, src/quayd.go:28
Default == [StatusesRepository |-> Nil, Tagger |-> Nil, TagResolver |-> Nil]

\* the status Handle builds for an event
StatusOf(repo, commit, url, state) ==
    Handle(Default, <<>>, repo, commit, url, state, NilErr).calls[1].status

\* the statuses the concurrent callers pass
RaceStatuses ==
    {StatusOf(repo, commit, url, state) :
        repo \in Repos, commit \in Commits, url \in URLs,
        state \in {"pending", "success"}}

\* r.statuses = append(r.statuses, status) is a read of r.statuses followed by
\* a write of it, with nothing that keeps another goroutine out in between:
\* the read
CreateRead(g) ==
    /\ creating[g].pc = "start"
    /\ creating' = [creating EXCEPT ![g].pc = "read", ![g].read = statuses]
    /\ UNCHANGED <<q, statuses, registry, puts, pc, op, log, result, quayds>>

\* the write of the list read, extended by the status, and the return
CreateWrite(g) ==
    /\ creating[g].pc = "read"
    /\ LET r == FakeCreate(creating[g].read, creating[g].status)
       IN  /\ statuses' = r.statuses
           /\ creating' = [creating EXCEPT ![g].pc = "done", ![g].ret = r.ret]
    /\ UNCHANGED <<q, registry, puts, pc, op, log, result, quayds>>

InitRace ==
    /\ q = Default
    /\ statuses \in {<<>>} \cup {<<s>> : s \in RaceStatuses}
    /\ registry = <<>>
    /\ puts = <<>>
    /\ pc = "idle"
    /\ op = [kind |-> "none"]
    /\ log = <<>>
    /\ result = NoResult
    /\ quayds = <<>>
    /\ creating \in [Goroutines ->
                        {[pc |-> "start", status |-> s, read |-> <<>>,
                          ret |-> NoResult] : s \in RaceStatuses}]

NextRace ==
    \/ \E g \in Goroutines : CreateRead(g)
    \/ \E g \in Goroutines : CreateWrite(g)

SpecRace == InitRace /\ [][NextRace]_vars

\* both calls have returned
BothCreated == \A g \in Goroutines : creating[g].pc = "done"

\* y read the list only after x had written it: the calls did not interleave
RanAfter(x, y) ==
    creating[y].read = Append(creating[x].read, creating[x].status)

\* both read the list before either wrote it: the calls interleaved
Interleaved == creating["g1"].read = creating["g2"].read

\* C16: two Create calls on the same fake sink both return nil.  When one ran
\* after the other, the list ends as the list before both, extended by both
\* statuses in call order.  When they interleaved, each having read the list
\* before the other wrote it, the list ends extended by one status only, that
\* of the later writer: the other update is lost.
C16_LostUpdate ==
    BothCreated =>
        /\ \A g \in Goroutines : IsNil(creating[g].ret)
        /\ Interleaved \/ RanAfter("g1", "g2") \/ RanAfter("g2", "g1")
        /\ \A x, y \in Goroutines :
              (x # y /\ RanAfter(x, y)) =>
                  statuses = creating[x].read
                                \o <<creating[x].status, creating[y].status>>
        /\ Interleaved =>
              /\ Len(statuses) = Len(creating["g1"].read) + 1
              /\ \E g \in Goroutines :
                    statuses = Append(creating[g].read, creating[g].status)

\* two different statuses created concurrently on the empty list, one kept
C16_Witness ==
    /\ BothCreated
    /\ creating["g1"].read = <<>>
    /\ creating["g2"].read = <<>>
    /\ creating["g1"].status # creating["g2"].status
    /\ Len(statuses) = 1
    /\ statuses[1] = creating["g1"].status

----------------------------------------------------------------------------
(* Handle and LoadImageTags apart, under Spec *)

\* C17: whatever the state, success included, a run of Handle makes exactly
\* one call, the sink's Create, and leaves the Quayd and the registry as they
\* were; LoadImageTags takes no state and, once called, is at its first call;
\* each of its steps makes one call, never Create, and leaves the sink's list
\* as it was; its first call is Resolve for its (repo, tag), after which it
\* goes on when that returned nil, and every later call is Tag.
C17_DisjointEffects ==
    [][/\ HandleStep =>
            /\ Len(NewCalls) = 1
            /\ NewCalls[1].op = "Create"
            /\ NewCalls[1].status.State = op'.state
            /\ UNCHANGED <<q, registry, puts>>
       /\ LoadImageTagsEntry =>
            /\ DOMAIN op' = {"kind", "tag", "repo", "commit"}
            /\ pc' = "tags"
            /\ log' = <<>>
            /\ UNCHANGED <<q, statuses, registry, puts>>
       /\ LoadImageTagsStep =>
            /\ Len(NewCalls) = 1
            /\ NewCalls[1].op # "Create"
            /\ CallsMade = <<>> =>
                  /\ NewCalls[1].op = "Resolve"
                  /\ NewCalls[1].repo = op.repo
                  /\ NewCalls[1].tag = op.tag
                  /\ IsNil(NewCalls[1].ret) => pc' = "tags"
            /\ CallsMade # <<>> => NewCalls[1].op = "Tag"
            /\ UNCHANGED statuses]_vars

\* Handle called with state success: one Create call, nothing resolved or tagged
C17_Witness ==
    /\ op.kind = "Handle"
    /\ op.state = "success"
    /\ pc = "done"
    /\ IsNil(result)
    /\ Len(log) = 1
    /\ log[1].op = "Create"
    /\ puts = <<>>

----------------------------------------------------------------------------
(* Several Quayd values in one process *)

QuaydNames == {"a", "b"}

\* the Quayd values explored next to Default: the sink unset or configured
SinkConfigs ==
    [StatusesRepository : {Nil, "custom"}, Tagger : {Nil}, TagResolver : {Nil}]

\* quayds[n].Handle(repo, commit, url, state)
CallHandleOn(n, repo, commit, url, state) ==
    /\ Idle
    /\ statusesRepository(quayds[n]) = DefaultStatusesRepository
          => Len(statuses) < MaxStatuses
    /\ \E env \in CreateEnvs(statusesRepository(quayds[n])) :
        LET h == Handle(quayds[n], statuses, repo, commit, url, state, env)
        IN  /\ statuses' = h.statuses
            /\ log' = h.calls
            /\ result' = h.ret
    /\ op' = [kind |-> "HandleOn", on |-> n, repo |-> repo, commit |-> commit,
              url |-> url, state |-> state]
    /\ pc' = "done"
    /\ UNCHANGED <<q, registry, puts, quayds, creating>>

InitShared ==
    /\ q = Default
    /\ quayds \in [QuaydNames -> SinkConfigs]
    /\ statuses = <<>>
    /\ registry = <<>>
    /\ puts = <<>>
    /\ pc = "idle"
    /\ op = [kind |-> "none"]
    /\ log = <<>>
    /\ result = NoResult
    /\ creating = <<>>

\* Handle on Default and on the other Quayd values, and Reset, in any order
NextShared ==
    \/ \E repo \in Repos, commit \in Commits, url \in URLs,
          state \in {"pending", "success"} :
        CallHandle(repo, commit, url, state)
    \/ \E n \in QuaydNames, repo \in Repos, commit \in Commits, url \in URLs,
          state \in {"pending", "success"} :
        CallHandleOn(n, repo, commit, url, state)
    \/ Reset

SpecShared == InitShared /\ [][NextShared]_vars

\* the Quayd a step calls Handle on
Receiver == IF op'.kind = "HandleOn" THEN quayds[op'.on] ELSE q

\* C18: Handle on any Quayd whose StatusesRepository is unset calls Create on
\* DefaultStatusesRepository and extends its one record list at the end, so
\* the statuses created through all such Quayd values stand in that list in
\* call order; Reset empties the list whichever of them filled it; Handle on
\* a Quayd with a configured sink leaves the list as it is.
C18_SharedFallbackSink ==
    [][/\ (Idle /\ op'.kind \in {"Handle", "HandleOn"}) =>
            /\ Receiver.StatusesRepository = Nil =>
                  /\ log'[1].impl = DefaultStatusesRepository
                  /\ statuses' = Append(statuses, log'[1].status)
            /\ Receiver.StatusesRepository # Nil =>
                  /\ log'[1].impl = Receiver.StatusesRepository
                  /\ statuses' = statuses
            /\ UNCHANGED <<q, quayds>>
       /\ ResetStep => statuses' = <<>>]_vars

\* the list holds two records after Handle on b, a Quayd other than Default
\* and other than a, all three with the sink unset
C18_Witness ==
    /\ op.kind = "HandleOn"
    /\ op.on = "b"
    /\ pc = "done"
    /\ q.StatusesRepository = Nil
    /\ quayds["a"].StatusesRepository = Nil
    /\ quayds["b"].StatusesRepository = Nil
    /\ Len(statuses) = 2
    /\ statuses[1] # statuses[2]
    /\ statuses[2] = log[1].status

----------------------------------------------------------------------------
(* What default resolution writes into the Quayd, under Spec *)

\* C19: a run of Handle leaves every field of the Quayd as it was, an unset
\* StatusesRepository included.  Every step of LoadImageTags leaves the
\* StatusesRepository field as it was; the step that calls Resolve stores
\* DefaultTagResolver in an unset TagResolver field whatever Resolve then
\* returns, leaves the Tagger field alone, and ends the run when Resolve did
\* not return nil; a step that calls Tag, which is made only after Resolve
\* returned nil, stores DefaultTagger in an unset Tagger field; a field that
\* is set keeps its value.  No other step writes the Quayd.
C19_DefaultsStored ==
    [][/\ HandleStep => q' = q
       /\ LoadImageTagsStep =>
            /\ q'.StatusesRepository = q.StatusesRepository
            /\ NewCalls[1].op = "Resolve" =>
                  /\ q'.TagResolver = Resolved(q.TagResolver, DefaultTagResolver)
                  /\ q'.Tagger = q.Tagger
                  /\ ~IsNil(NewCalls[1].ret) => pc' = "done"
            /\ NewCalls[1].op = "Tag" =>
                  /\ IsNil(CallsMade[1].ret)
                  /\ q'.Tagger = Resolved(q.Tagger, DefaultTagger)
                  /\ q'.TagResolver = q.TagResolver
       /\ (~HandleStep /\ ~LoadImageTagsStep) => q' = q]_vars

\* after Handle and LoadImageTags on a Quayd with only the resolver
\* configured: the tagger field holds the fake, the resolver field its
\* configured value, the sink field is still unset
C19_Witness ==
    /\ op.kind = "LoadImageTags"
    /\ pc = "done"
    /\ statuses # <<>>
    /\ q.StatusesRepository = Nil
    /\ q.TagResolver = "custom"
    /\ q.Tagger = DefaultTagger

====
